---- MODULE Spec2Model ----
(***************************************************************************)
(* Lifecycle coordinator of the Lambda layer collector extension:          *)
(*   - newLifecycleManager / processEvents (cmd main, telemetry variant)   *)
(*   - telemetryapi.Listener (Start, httpHandler, Shutdown, Wait)          *)
(*   - telemetryapi.Client.Subscribe, extensionapi.Client                  *)
(*   - Collector.Start / Collector.Stop                                    *)
(* The coordinator, the listener's serving goroutine, the HTTP handlers,   *)
(* the collector's run goroutine and the signal goroutine are separate     *)
(* processes; every action is one atomic step of one of them.              *)
(***************************************************************************)
EXTENDS Integers, Sequences, FiniteSets, TLC

\* ------------------------------------------------------------------ bounds
\* number of telemetry batches the platform pushes to the listener
MaxBatches == 2
\* number of telemetry events the handlers decode in all
MaxPushed == 2
\* number of events other than SHUTDOWN that NextEvent yields
MaxEvents == 2
\* the same two numbers for the whole program, from its start to its end
StartupBatches == 1
StartupPushed == 2
\* number of Collector.Stop calls a caller of the Collector makes
MaxStops == 3
\* number of spans active at the same time in the pipeline
MaxSpans == 2

\* ------------------------------------------------------- program constants
minBatchSize == 10
StatusOK == 200
StatusAccepted == 202

PLATFORM_RUNTIME_DONE == "platform.runtimeDone"
PLATFORM_LOGS_DROPPED == "platform.logsDropped"
Invoke == "INVOKE"
Shutdown == "SHUTDOWN"

\* ----------------------------------------------------------------- inputs
\* request identifiers the platform uses
ReqIds == {"abc", "other"}
\* value of Record["requestId"] when the key is absent (a nil interface)
NoReq == "<nil>"
\* platform event types of /event/next; "" is an unknown or missing type
NextEventTypes == {Invoke, Shutdown, ""}
\* the request id of an invocation after n earlier ones: the ids are the
\* platform's, so the first is called "abc"
InvokeIds(n) == IF n = 0 THEN {"abc"} ELSE ReqIds
\* the identifier the platform hands out at registration
ExtIds == {"ext-1"}

\* One element of a pushed JSON array: a telemetry object, or a JSON value
\* that is no object ("bad": a number, a string).  "platform.start" stands for
\* every type other than the two the listener knows.
RuntimeDoneElems ==
    { [kind |-> "obj", type |-> PLATFORM_RUNTIME_DONE, req |-> r] : r \in ReqIds }
WireElems ==
    RuntimeDoneElems
    \cup { [kind |-> "obj", type |-> PLATFORM_LOGS_DROPPED, req |-> "abc"],
           [kind |-> "obj", type |-> "platform.start", req |-> "abc"],
           [kind |-> "bad", type |-> "", req |-> NoReq] }

SeqsUpTo(S, n) == UNION { [1..k -> S] : k \in 0..n }

\* The request bodies of at most n elements drawn from elems: a syntactically
\* valid JSON array with its elements, or a body that is no JSON.
Bodies(elems, n) ==
    { [syntaxOK |-> TRUE, elems |-> es] : es \in SeqsUpTo(elems, n) }
    \cup { [syntaxOK |-> FALSE, elems |-> << >>] }

\* Responses of the control plane and of the telemetry API to one HTTP request:
\* the transport fails (no response at all, status 0), or a response arrives
\* whose body can or cannot be read to its end.  500 stands for every status
\* other than 200 and 202; no result of either client depends on the body of
\* such a response.
HttpResponses ==
    { [transportOK |-> FALSE, status |-> 0, bodyOK |-> FALSE] }
    \cup [transportOK : {TRUE}, status : {StatusOK, StatusAccepted}, bodyOK : BOOLEAN]
    \cup { [transportOK |-> TRUE, status |-> 500, bodyOK |-> TRUE] }

VARIABLES
    pc,          \* position of the coordinator (main goroutine)
    ctxDone,     \* the root context is cancelled
    extensionID, \* extensionapi.Client.extensionID
    subStatus,   \* status of the accepted subscription response, 0 before
    httpServer,  \* Listener.httpServer: "nil" or "srv"
    srv,         \* the http.Server: "new", "listening", "failed", "closed"
    srvPc,       \* serving goroutine of Listener.Start
    queue,       \* Listener.queue
    handlers,    \* the httpHandler invocations, one per pushed batch
    wait,        \* the Listener.Wait call: its request id and result, and (history)
                 \* the event it returned on, how many errors it logged and how
                 \* many runtimeDone events of other requests it passed over
    examined,    \* history: the ids of the events Listener.Wait examined, in order
    response,    \* processEvents' local: the last NextEvent response
    col,         \* the Collector and its service; history: startRet and stopRet
                 \* are what Collector.Start and the last Collector.Stop
                 \* returned ("none" before), lateErr that svc.Run returned an
                 \* error after Start had returned nil
    calls,       \* history: how often each call was made, and how many HTTP
                 \* requests the two clients sent
    http,        \* history: the last HTTP exchange of the two clients: the call,
                 \* the identifier header sent, the response, the error result
    sp           \* the span processor of the variant without telemetry API: a
                 \* signal is ready on waitCh, the count of active spans;
                 \* history: the count processEvents read last (-1: none since
                 \* the last event) and what ended its wait on waitCh

vars == << pc, ctxDone, extensionID, subStatus, httpServer, srv, srvPc, queue,
           handlers, wait, examined, response, col, calls, http, sp >>

\* ---------------------------------------------------------- pure functions
Min(a, b) == IF a < b THEN a ELSE b

\* The zero value of Event: what json.Unmarshal leaves for an array element
\* that is no object.
ZeroEvent == [type |-> "", req |-> NoReq]

\* json.Unmarshal(body, &slice), its error ignored: a syntax error is found
\* before anything is stored and leaves slice nil; an element of the wrong
\* JSON type is skipped, leaving the zero Event in its place.  h tags every
\* event with its batch and position (history only).
Decode(body, h) ==
    IF ~body.syntaxOK THEN << >>
    ELSE [ i \in 1..Len(body.elems) |->
            LET el == body.elems[i] IN
            IF el.kind = "obj" THEN [type |-> el.type, req |-> el.req, id |-> <<h, i>>]
            ELSE [type |-> ZeroEvent.type, req |-> ZeroEvent.req, id |-> <<h, i>>] ]

\* Mutant: Put at the head of the queue.
QueuePut_Front(q, item) == << item >> \o q

\* queue.Put(item): the item goes to the tail.
QueuePut(q, item) == Append(q, item)

\* queue.Get(number) on a non-empty queue: up to number items from the head.
\* (On an empty queue Get blocks until a Put; it takes no context.)
QueueGetItems(q, number) == SubSeq(q, 1, Min(number, Len(q)))
QueueGetRest(q, number) == SubSeq(q, Min(number, Len(q)) + 1, Len(q))

\* Mutant: the request id is not compared.
RECURSIVE WaitScan_AnyRequest(_, _, _)
WaitScan_AnyRequest(items, requestId, i) ==
    IF i > Len(items) THEN 0
    ELSE IF items[i].type = PLATFORM_LOGS_DROPPED
         THEN WaitScan_AnyRequest(items, requestId, i + 1)
    ELSE IF items[i].type # PLATFORM_RUNTIME_DONE
         THEN WaitScan_AnyRequest(items, requestId, i + 1)
    ELSE i

\* Mutant: the type is not looked at, the request id alone decides.
RECURSIVE WaitScan_AnyType(_, _, _)
WaitScan_AnyType(items, requestId, i) ==
    IF i > Len(items) THEN 0
    ELSE IF items[i].req = requestId THEN i
    ELSE WaitScan_AnyType(items, requestId, i + 1)

\* The loop over the items of one Get in Listener.Wait: the index of the item
\* at which Wait returns nil, 0 when it falls out of the loop.
RECURSIVE WaitScan(_, _, _)
WaitScan(items, requestId, i) ==
    IF i > Len(items) THEN 0
    ELSE IF items[i].type = PLATFORM_LOGS_DROPPED THEN WaitScan(items, requestId, i + 1)
    ELSE IF items[i].type # PLATFORM_RUNTIME_DONE THEN WaitScan(items, requestId, i + 1)
    ELSE IF items[i].req = requestId THEN i
    ELSE WaitScan(items, requestId, i + 1)

\* How many of the items Wait looked at are platform.logsDropped events, each
\* of which it reports with utility.LogError.
RECURSIVE DroppedIn(_)
DroppedIn(items) ==
    IF items = << >> THEN 0
    ELSE (IF Head(items).type = PLATFORM_LOGS_DROPPED THEN 1 ELSE 0) + DroppedIn(Tail(items))

\* How many of the items Wait looked at are platform.runtimeDone events of a
\* request other than the awaited one, which it passes over.
RECURSIVE OthersIn(_, _)
OthersIn(items, requestId) ==
    IF items = << >> THEN 0
    ELSE (IF Head(items).type = PLATFORM_RUNTIME_DONE /\ Head(items).req # requestId
          THEN 1 ELSE 0) + OthersIn(Tail(items), requestId)

\* Mutant: 202 Accepted passes the status check.
DoRequestErr_Lenient(resp) ==
    \/ ~resp.transportOK
    \/ (resp.status # StatusOK /\ resp.status # StatusAccepted)
    \/ ~resp.bodyOK

\* extensionapi.Client.doRequest: the error result (the transport's error, a
\* status other than 200, the body's read error, the body's decoding error).
DoRequestErr(resp) ==
    \/ ~resp.transportOK
    \/ resp.status # StatusOK
    \/ ~resp.bodyOK

\* Mutant: 202 Accepted is an error like every status other than 200.
SubscribeErr_Strict(resp) ==
    \/ ~resp.transportOK
    \/ resp.status # StatusOK

\* telemetryapi.Client.Subscribe: the error result.  The body of a 200 or 202
\* response is read with the read's error ignored.
SubscribeErr(resp) ==
    \/ ~resp.transportOK
    \/ (resp.status # StatusAccepted /\ resp.status # StatusOK)

\* A request sent with a cancelled context fails in the transport.
ResponsesUnder(done) ==
    IF done THEN { r \in HttpResponses : ~r.transportOK } ELSE HttpResponses

Bump(field) == [calls EXCEPT ![field] = @ + 1]

\* A call of one of the two clients: it sends one HTTP request.
Sent(field) == [calls EXCEPT ![field] = @ + 1, !.requests = @ + 1]

NoCalls ==
    [register |-> 0, subscribe |-> 0, next |-> 0, wait |-> 0, invokes |-> 0,
     lsnShutdown |-> 0, lsnShutdownErr |-> 0, httpShutdown |-> 0, stop |-> 0,
     svcShutdown |-> 0, initErr |-> 0, exitErr |-> 0, requests |-> 0]

\* The response every call hopes for.
OKResponse == [transportOK |-> TRUE, status |-> StatusOK, bodyOK |-> TRUE]

\* One HTTP exchange: the call that made it, the Lambda-Extension-Identifier
\* header of the request, the response, whether the call returned an error,
\* whether the client or its caller passed the outcome to utility.LogError, and
\* the call's first result: every call returns its zero value (a nil pointer,
\* Subscribe the empty string) together with an error.
Exchange(call, id, resp, err, logged) ==
    [call |-> call, id |-> id, resp |-> resp, err |-> err, logged |-> logged,
     result |-> IF err THEN "nil" ELSE "value"]
NoHttp == Exchange("", "", OKResponse, FALSE, FALSE)

\* The span processor as newSpanProcessor leaves it.
NoSpans == [waitCh |-> FALSE, active |-> 0, observed |-> -1, woke |-> "none"]

\* The Listener.Wait call for requestId, just entered.
WaitCall(requestId) ==
    [req |-> requestId, ret |-> "none", hit |-> ZeroEvent, logged |-> 0, others |-> 0]
NoWait == WaitCall("")

\* ------------------------------------------------------------------- Init
Init ==
    /\ pc = "Register"
    /\ ctxDone = FALSE
    /\ extensionID = ""
    /\ subStatus = 0
    /\ httpServer = "nil"
    /\ srv = "none"
    /\ srvPc = "none"
    /\ queue = << >>
    /\ handlers = [h \in 1..MaxBatches |->
                      [st |-> "idle", slice |-> << >>, n |-> 0, after |-> {}]]
    /\ wait = NoWait
    /\ examined = << >>
    /\ response = [type |-> "", req |-> ""]
    /\ col = [svc |-> "nil", state |-> "Starting", runPc |-> "none", err |-> "nil",
              appDone |-> FALSE, stopped |-> FALSE, shutdownReq |-> FALSE,
              polled |-> "Starting", startRet |-> "none", stopRet |-> "none",
              lateErr |-> FALSE]
    /\ calls = NoCalls
    /\ http = NoHttp
    /\ sp = NoSpans

\* main has not returned.  When it returns the process exits, and with it
\* every goroutine and every handler.
Alive == pc \notin {"Failed", "Exited", "Stopped"}

\* ------------------------------------------------- newLifecycleManager
\* The signal goroutine: <-sigs; cancel().
Signal ==
    /\ Alive
    /\ ~ctxDone
    /\ ctxDone' = TRUE
    /\ UNCHANGED << pc, extensionID, subStatus, httpServer, srv, srvPc, queue,
                    handlers, wait, examined, response, col, calls, http, sp >>

\* Mutant: a failed registration is logged and the startup goes on.
Register_GoesOn ==
    /\ pc = "Register"
    /\ \E resp \in ResponsesUnder(ctxDone), id \in ExtIds :
         /\ extensionID' = IF DoRequestErr(resp) THEN extensionID ELSE id
         /\ http' = Exchange("Register", "", resp, DoRequestErr(resp), DoRequestErr(resp))
    /\ pc' = "ListenerStart"
    /\ calls' = Sent("register")
    /\ UNCHANGED << ctxDone, subStatus, httpServer, srv, srvPc, queue, handlers,
                    wait, examined, response, col, sp >>

\* Mutant: the identifier of the response header is not stored.
Register_NoCapture ==
    /\ pc = "Register"
    /\ \E resp \in ResponsesUnder(ctxDone) :
         /\ http' = Exchange("Register", "", resp, DoRequestErr(resp), DoRequestErr(resp))
         /\ pc' = IF DoRequestErr(resp) THEN "Failed" ELSE "ListenerStart"
    /\ calls' = Sent("register")
    /\ UNCHANGED << ctxDone, extensionID, subStatus, httpServer, srv, srvPc, queue,
                    handlers, wait, examined, response, col, sp >>

\* Mutant: Register reads the identifier header before it tests doRequest's
\* error, so a response whose body cannot be decoded still sets the identifier.
Register_StoresOnError ==
    /\ pc = "Register"
    /\ \E resp \in ResponsesUnder(ctxDone), id \in ExtIds :
         /\ http' = Exchange("Register", "", resp, DoRequestErr(resp), DoRequestErr(resp))
         /\ IF DoRequestErr(resp)
            THEN /\ pc' = "Failed"
                 /\ extensionID' = IF resp.transportOK /\ resp.status = StatusOK
                                   THEN id ELSE extensionID
            ELSE pc' = "ListenerStart" /\ extensionID' = id
    /\ calls' = Sent("register")
    /\ UNCHANGED << ctxDone, subStatus, httpServer, srv, srvPc, queue, handlers,
                    wait, examined, response, col, sp >>

\* Step 1: extensionClient.Register.  The identifier of the response header is
\* stored only when doRequest reports no error.
Register ==
    /\ pc = "Register"
    /\ \E resp \in ResponsesUnder(ctxDone), id \in ExtIds :
         /\ http' = Exchange("Register", "", resp, DoRequestErr(resp), DoRequestErr(resp))
         /\ IF DoRequestErr(resp)
            THEN pc' = "Failed" /\ UNCHANGED extensionID
            ELSE pc' = "ListenerStart" /\ extensionID' = id
    /\ calls' = Sent("register")
    /\ UNCHANGED << ctxDone, subStatus, httpServer, srv, srvPc, queue, handlers,
                    wait, examined, response, col, sp >>

\* Mutant: Listener.Start binds before it returns and returns the bind's error,
\* on which newLifecycleManager gives up.
ListenerStart_Binds ==
    /\ pc = "ListenerStart"
    /\ httpServer' = "srv"
    /\ \E ok \in BOOLEAN :
         IF ok THEN srv' = "listening" /\ srvPc' = "serving" /\ pc' = "Subscribe"
         ELSE srv' = "failed" /\ srvPc' = "exited" /\ pc' = "Failed"
    /\ UNCHANGED << ctxDone, extensionID, subStatus, queue, handlers, wait,
                    examined, response, col, calls, http, sp >>

\* Step 2: Listener.Start creates the server, starts the serving goroutine and
\* returns the address with a nil error at once.
ListenerStart ==
    /\ pc = "ListenerStart"
    /\ httpServer' = "srv"
    /\ srv' = "new"
    /\ srvPc' = "ListenAndServe"
    /\ pc' = "Subscribe"
    /\ UNCHANGED << ctxDone, extensionID, subStatus, queue, handlers, wait,
                    examined, response, col, calls, http, sp >>

\* Step 3: telemetryClient.Subscribe.  200 and 202 both return a nil error and
\* the coordinator goes on the same way.
Subscribe ==
    /\ pc = "Subscribe"
    /\ \E resp \in ResponsesUnder(ctxDone) :
         /\ http' = Exchange("Subscribe", extensionID, resp, SubscribeErr(resp),
                            SubscribeErr(resp) \/ resp.status = StatusAccepted)
         /\ IF SubscribeErr(resp)
            THEN pc' = "Failed" /\ UNCHANGED subStatus
            ELSE pc' = "Components" /\ subStatus' = resp.status
    /\ calls' = Sent("subscribe")
    /\ UNCHANGED << ctxDone, extensionID, httpServer, srv, srvPc, queue, handlers,
                    wait, examined, response, col, sp >>

\* lambdacomponents.Components().
Components ==
    /\ pc = "Components"
    /\ \E ok \in BOOLEAN : pc' = IF ok THEN "NewCollector" ELSE "Failed"
    /\ UNCHANGED << ctxDone, extensionID, subStatus, httpServer, srv, srvPc, queue,
                    handlers, wait, examined, response, col, calls, http, sp >>

\* NewCollector(factories).
NewCollector ==
    /\ pc = "NewCollector"
    /\ \E ok \in BOOLEAN : pc' = IF ok THEN "CollectorStart" ELSE "Failed"
    /\ UNCHANGED << ctxDone, extensionID, subStatus, httpServer, srv, srvPc, queue,
                    handlers, wait, examined, response, col, calls, http, sp >>

\* ----------------------------------------------------------- Collector
\* Collector.Start up to its polling loop: service.New, appDone, go Run.
CollectorStart ==
    /\ pc = "CollectorStart"
    /\ \E ok \in BOOLEAN :
         IF ok
         THEN /\ col' = [col EXCEPT !.svc = "new", !.runPc = "setup"]
              /\ pc' = "CollectorPoll"
         ELSE /\ pc' = "InitError"
              /\ col' = [col EXCEPT !.startRet = "err"]
    /\ UNCHANGED << ctxDone, extensionID, subStatus, httpServer, srv, srvPc, queue,
                    handlers, wait, examined, response, calls, http, sp >>

\* state := c.svc.GetState()
CollectorGetState ==
    /\ pc = "CollectorPoll"
    /\ col' = [col EXCEPT !.polled = col.state]
    /\ pc' = "CollectorCheck"
    /\ UNCHANGED << ctxDone, extensionID, subStatus, httpServer, srv, srvPc, queue,
                    handlers, wait, examined, response, calls, http, sp >>

\* What the polling loop's unsynchronised read of err may observe: its own
\* write always, the run goroutine's write or the value before it.
ErrSeen ==
    IF col.err = "stateErr" THEN {"err"}
    ELSE IF col.err = "appErr" THEN {"nil", "err"}
    ELSE {"nil"}

\* Mutant: Start returns nil as soon as it sees no error, whatever the state.
CollectorCheck_AnyState ==
    /\ pc = "CollectorCheck"
    /\ \E seen \in ErrSeen :
         IF seen = "err"
         THEN pc' = "InitError" /\ col' = [col EXCEPT !.startRet = "err"]
         ELSE pc' = "LoopTop" /\ col' = [col EXCEPT !.startRet = "nil"]
    /\ UNCHANGED << ctxDone, extensionID, subStatus, httpServer, srv, srvPc, queue,
                    handlers, wait, examined, response, calls, http, sp >>

\* Mutant: the switch has no default branch, so a state other than Starting and
\* Running sends the loop round again with err as it was.
CollectorCheck_NoDefault ==
    /\ pc = "CollectorCheck"
    /\ \E seen \in ErrSeen :
         IF seen = "err"
         THEN pc' = "InitError" /\ col' = [col EXCEPT !.startRet = "err"]
         ELSE IF col.polled = "Running"
         THEN pc' = "LoopTop" /\ col' = [col EXCEPT !.startRet = "nil"]
         ELSE pc' = "CollectorPoll" /\ UNCHANGED col
    /\ UNCHANGED << ctxDone, extensionID, subStatus, httpServer, srv, srvPc, queue,
                    handlers, wait, examined, response, calls, http, sp >>

\* if err != nil { return err }; switch state { ... }
CollectorCheck ==
    /\ pc = "CollectorCheck"
    /\ \E seen \in ErrSeen :
         IF seen = "err"
         THEN pc' = "InitError" /\ col' = [col EXCEPT !.startRet = "err"]
         ELSE IF col.polled = "Starting"
         THEN pc' = "CollectorPoll" /\ UNCHANGED col
         ELSE IF col.polled = "Running"
         THEN pc' = "LoopTop" /\ col' = [col EXCEPT !.startRet = "nil"]
         ELSE pc' = "CollectorPoll" /\ col' = [col EXCEPT !.err = "stateErr"]
    /\ UNCHANGED << ctxDone, extensionID, subStatus, httpServer, srv, srvPc, queue,
                    handlers, wait, examined, response, calls, http, sp >>

\* Mutant: the failed collector.Start is logged and not reported.
InitError_NotCalled ==
    /\ pc = "InitError"
    /\ pc' = "Failed"
    /\ UNCHANGED << ctxDone, extensionID, subStatus, httpServer, srv, srvPc, queue,
                    handlers, wait, examined, response, col, calls, http, sp >>

\* extensionClient.InitError after a failed collector.Start; its result, error
\* or not, is dropped: nothing reads it and nothing logs it.
InitError ==
    /\ pc = "InitError"
    /\ \E resp \in ResponsesUnder(ctxDone) :
         http' = Exchange("InitError", extensionID, resp, DoRequestErr(resp), FALSE)
    /\ calls' = Sent("initErr")
    /\ pc' = "Failed"
    /\ UNCHANGED << ctxDone, extensionID, subStatus, httpServer, srv, srvPc, queue,
                    handlers, wait, examined, response, col, sp >>

\* The run goroutine: svc.Run sets the service up and reaches Running, or fails,
\* sets Closed and returns the error, which the goroutine stores in err before
\* closing appDone.
RunSetup ==
    /\ Alive
    /\ col.runPc = "setup"
    /\ \E ok \in BOOLEAN :
         col' = IF ok
                THEN [col EXCEPT !.state = "Running", !.runPc = "loop"]
                ELSE [col EXCEPT !.state = "Closed", !.runPc = "returned",
                                 !.err = "appErr", !.appDone = TRUE]
    /\ UNCHANGED << pc, ctxDone, extensionID, subStatus, httpServer, srv, srvPc,
                    queue, handlers, wait, examined, response, calls,
                    http, sp >>

\* svc.Run leaves its loop on Shutdown, on the context or on an asynchronous
\* error, shuts the service down and returns what the shutdown returned; the
\* goroutine stores an error in err and closes appDone.
RunReturn ==
    /\ Alive
    /\ col.runPc = "loop"
    /\ \E async \in BOOLEAN, failed \in BOOLEAN :
         /\ async \/ col.shutdownReq \/ ctxDone
         /\ col' = [col EXCEPT !.state = "Closed", !.runPc = "returned",
                               !.err = IF failed THEN "appErr" ELSE @,
                               !.lateErr = failed /\ col.startRet = "nil",
                               !.appDone = TRUE]
    /\ UNCHANGED << pc, ctxDone, extensionID, subStatus, httpServer, srv, srvPc,
                    queue, handlers, wait, examined, response, calls,
                    http, sp >>

\* Mutant: Stop does not record that it has run.
CollectorStop_NoFlag ==
    /\ pc = "CollectorStop"
    /\ col' = [col EXCEPT !.shutdownReq = @ \/ col.state \in {"Starting", "Running"}]
    /\ calls' = [calls EXCEPT !.stop = @ + 1, !.svcShutdown = @ + 1]
    /\ pc' = "CollectorStopWait"
    /\ UNCHANGED << ctxDone, extensionID, subStatus, httpServer, srv, srvPc, queue,
                    handlers, wait, examined, response, http, sp >>

\* Collector.Stop, first half: if !c.stopped { c.stopped = true; c.svc.Shutdown() }.
\* service.Shutdown signals the run loop when the state is Starting or Running.
CollectorStop ==
    /\ pc = "CollectorStop"
    /\ col' = IF col.stopped THEN col
              ELSE [col EXCEPT !.stopped = TRUE,
                               !.shutdownReq = @ \/ col.state \in {"Starting", "Running"}]
    /\ calls' = [calls EXCEPT !.stop = @ + 1,
                              !.svcShutdown = IF col.stopped THEN @ ELSE @ + 1]
    /\ pc' = "CollectorStopWait"
    /\ UNCHANGED << ctxDone, extensionID, subStatus, httpServer, srv, srvPc, queue,
                    handlers, wait, examined, response, http, sp >>

\* Mutant: processEvents goes round its loop again after the shutdown sequence.
CollectorStopWait_NoReturn ==
    /\ pc = "CollectorStopWait"
    /\ col.appDone
    /\ pc' = "LoopTop"
    /\ UNCHANGED << ctxDone, extensionID, subStatus, httpServer, srv, srvPc, queue,
                    handlers, wait, examined, response, col, calls, http, sp >>

\* Collector.Stop, second half: <-c.appDone; return nil.  The caller's err is
\* nil, so processEvents returns without calling ExitError.
CollectorStopWait ==
    /\ pc = "CollectorStopWait"
    /\ col.appDone
    /\ pc' = "Stopped"
    /\ col' = [col EXCEPT !.stopRet = "nil"]
    /\ UNCHANGED << ctxDone, extensionID, subStatus, httpServer, srv, srvPc, queue,
                    handlers, wait, examined, response, calls, http, sp >>

\* ------------------------------------------------------------ Listener
AnyActive == \E h \in 1..MaxBatches : handlers[h].st = "active"

\* How many events the handlers have decoded so far.
RECURSIVE SumN(_)
SumN(h) == IF h = 0 THEN 0 ELSE handlers[h].n + SumN(h - 1)
Pushed == SumN(MaxBatches)

Ids(items) == [ i \in 1..Len(items) |-> items[i].id ]

\* The serving goroutine: ListenAndServe binds and serves, fails to bind, or
\* returns ErrServerClosed at once when the server is already shut down.
SrvListenAndServe ==
    /\ Alive
    /\ srvPc = "ListenAndServe"
    /\ IF srv = "closed"
       THEN srvPc' = "exited" /\ UNCHANGED srv
       ELSE \E ok \in BOOLEAN :
              IF ok THEN srv' = "listening" /\ srvPc' = "serving"
              ELSE srv' = "failed" /\ srvPc' = "Shutdown"
    /\ UNCHANGED << pc, ctxDone, extensionID, subStatus, httpServer, queue,
                    handlers, wait, examined, response, col, calls, http, sp >>

\* ListenAndServe returns ErrServerClosed after a Shutdown of the serving
\* server, which the goroutine logs.  (An error other than ErrServerClosed is
\* modelled where it arises in practice, at the bind.)
SrvServeReturn ==
    /\ Alive
    /\ srvPc = "serving"
    /\ srv = "closed"
    /\ srvPc' = "exited"
    /\ UNCHANGED srv
    /\ UNCHANGED << pc, ctxDone, extensionID, subStatus, httpServer, queue,
                    handlers, wait, examined, response, col, calls, http, sp >>

\* Listener.Shutdown called by the serving goroutine: the nil check and the
\* call of httpServer.Shutdown, which closes the listeners at once.
SrvShutdown ==
    /\ Alive
    /\ srvPc = "Shutdown"
    /\ IF httpServer = "nil"
       THEN srvPc' = "exited" /\ UNCHANGED << srv, calls >>
       ELSE srv' = "closed" /\ srvPc' = "ShutdownEnd" /\ calls' = Bump("httpShutdown")
    /\ UNCHANGED << pc, ctxDone, extensionID, subStatus, httpServer, queue,
                    handlers, wait, examined, response, col, http, sp >>

\* httpServer.Shutdown returns nil once no request is in flight, and the
\* deadline's error after one second while one still is; only nil clears
\* s.httpServer.
SrvShutdownEnd ==
    /\ Alive
    /\ srvPc = "ShutdownEnd"
    /\ httpServer' = IF AnyActive THEN httpServer ELSE "nil"
    /\ srvPc' = "exited"
    /\ UNCHANGED << pc, ctxDone, extensionID, subStatus, srv, queue, handlers,
                    wait, examined, response, col, calls, http, sp >>

\* httpHandler, up to its loop: the platform pushes batch h to the listening
\* server (only a subscription answered 200 makes it push); the body is read
\* and decoded.  A failed read returns at once.  The platform draws the
\* elements from elems and stops at max events.
HandlerStart(h, elems, max) ==
    /\ Alive
    /\ handlers[h].st = "idle"
    /\ h > 1 => handlers[h - 1].st # "idle"
    /\ srv = "listening"
    /\ subStatus = StatusOK
    /\ \E readOK \in BOOLEAN, body \in Bodies(elems, max - Pushed) :
         LET slice == IF readOK THEN Decode(body, h) ELSE << >> IN
         handlers' = [handlers EXCEPT ![h] =
                         [st |-> IF slice = << >> THEN "done" ELSE "active",
                          slice |-> slice,
                          n |-> Len(slice),
                          after |-> { g \in 1..MaxBatches : handlers[g].st = "done" }]]
    /\ UNCHANGED << pc, ctxDone, extensionID, subStatus, httpServer, srv, srvPc,
                    queue, wait, examined, response, col, calls, http, sp >>

\* Mutant: Put hands the item over to a consumer that is waiting in Get.
HandlerPut_Rendezvous(h) ==
    /\ Alive
    /\ handlers[h].st = "active"
    /\ pc = "WaitGet"
    /\ queue' = QueuePut(queue, Head(handlers[h].slice))
    /\ handlers' = [handlers EXCEPT ![h].slice = Tail(@),
                                    ![h].st = IF Len(handlers[h].slice) = 1
                                              THEN "done" ELSE "active"]
    /\ UNCHANGED << pc, ctxDone, extensionID, subStatus, httpServer, srv, srvPc,
                    wait, examined, response, col, calls, http, sp >>

\* One iteration of httpHandler's loop: s.queue.Put(el), which does not block;
\* the handler returns after the last one (net/http then answers 200).
HandlerPut(h) ==
    /\ Alive
    /\ handlers[h].st = "active"
    /\ queue' = QueuePut(queue, Head(handlers[h].slice))
    /\ handlers' = [handlers EXCEPT ![h].slice = Tail(@),
                                    ![h].st = IF Len(handlers[h].slice) = 1
                                              THEN "done" ELSE "active"]
    /\ UNCHANGED << pc, ctxDone, extensionID, subStatus, httpServer, srv, srvPc,
                    wait, examined, response, col, calls, http, sp >>

\* Mutant: Get waits until the queue holds number items.
QueueGetReady_Min(q, number) == Len(q) >= number

\* queue.Get returns when the queue holds an item (it blocks on an empty one).
QueueGetReady(q, number) == Len(q) > 0

\* Mutant: processEvents treats the error of Wait like that of NextEvent.
WaitSelect_Fatal ==
    /\ pc = "WaitSelect"
    /\ IF ctxDone
       THEN pc' = "ExitError" /\ wait' = [wait EXCEPT !.ret = "ctx"]
       ELSE pc' = "WaitGet" /\ UNCHANGED wait
    /\ UNCHANGED << ctxDone, extensionID, subStatus, httpServer, srv, srvPc, queue,
                    handlers, examined, response, col, calls, http, sp >>

\* Mutant: Wait empties the queue before it returns the context's error.
WaitSelect_Drains ==
    /\ pc = "WaitSelect"
    /\ IF ctxDone
       THEN pc' = "LoopTop" /\ wait' = [wait EXCEPT !.ret = "ctx"] /\ queue' = << >>
       ELSE pc' = "WaitGet" /\ UNCHANGED << wait, queue >>
    /\ UNCHANGED << ctxDone, extensionID, subStatus, httpServer, srv, srvPc,
                    handlers, examined, response, col, calls, http, sp >>

\* Listener.Wait, the select: the context's error when it is done, else on to
\* queue.Get.  processEvents logs the error and goes round its loop.
WaitSelect ==
    /\ pc = "WaitSelect"
    /\ IF ctxDone
       THEN pc' = "LoopTop" /\ wait' = [wait EXCEPT !.ret = "ctx"]
       ELSE pc' = "WaitGet" /\ UNCHANGED wait
    /\ UNCHANGED << ctxDone, extensionID, subStatus, httpServer, srv, srvPc, queue,
                    handlers, examined, response, col, calls, http, sp >>

\* Mutant: processEvents goes on to the next event while Wait, having found no
\* match in the items of one Get, has not returned.
WaitGet_Abandon ==
    /\ pc = "WaitGet"
    /\ Len(queue) > 0
    /\ LET items == QueueGetItems(queue, minBatchSize)
           k == WaitScan(items, wait.req, 1)
           looked == IF k = 0 THEN items ELSE SubSeq(items, 1, k)
       IN /\ queue' = QueueGetRest(queue, minBatchSize)
          /\ examined' = examined \o Ids(looked)
          /\ pc' = "LoopTop"
          /\ wait' = IF k = 0 THEN wait ELSE [wait EXCEPT !.ret = "nil"]
    /\ UNCHANGED << ctxDone, extensionID, subStatus, httpServer, srv, srvPc,
                    handlers, response, col, calls, http, sp >>

\* Mutant: the items of a Get that Wait did not return on go back to the tail
\* of the queue.
WaitGet_PutsBack ==
    /\ pc = "WaitGet"
    /\ QueueGetReady(queue, minBatchSize)
    /\ LET items == QueueGetItems(queue, minBatchSize)
           k == WaitScan(items, wait.req, 1)
           looked == IF k = 0 THEN items ELSE SubSeq(items, 1, k)
           back == IF k = 0 THEN << >> ELSE SubSeq(items, 1, k - 1) \o
                                            SubSeq(items, k + 1, Len(items))
       IN /\ queue' = QueueGetRest(queue, minBatchSize) \o back
          /\ examined' = examined \o Ids(looked)
          /\ IF k = 0
             THEN /\ pc' = "WaitSelect"
                  /\ wait' = [wait EXCEPT !.logged = @ + DroppedIn(looked),
                                          !.others = @ + OthersIn(looked, wait.req)]
             ELSE /\ pc' = "LoopTop"
                  /\ wait' = [wait EXCEPT !.ret = "nil",
                                          !.hit = [type |-> items[k].type,
                                                   req |-> items[k].req],
                                          !.logged = @ + DroppedIn(looked),
                                          !.others = @ + OthersIn(looked, wait.req)]
    /\ UNCHANGED << ctxDone, extensionID, subStatus, httpServer, srv, srvPc,
                    handlers, response, col, calls, http, sp >>

\* Listener.Wait, queue.Get and the loop over its items.  The queue is never
\* disposed, so Get returns no error; only Events are ever put.
WaitGet ==
    /\ pc = "WaitGet"
    /\ QueueGetReady(queue, minBatchSize)
    /\ LET items == QueueGetItems(queue, minBatchSize)
           k == WaitScan(items, wait.req, 1)
           looked == IF k = 0 THEN items ELSE SubSeq(items, 1, k)
       IN /\ queue' = QueueGetRest(queue, minBatchSize)
          /\ examined' = examined \o Ids(looked)
          /\ IF k = 0
             THEN /\ pc' = "WaitSelect"
                  /\ wait' = [wait EXCEPT !.logged = @ + DroppedIn(looked),
                                          !.others = @ + OthersIn(looked, wait.req)]
             ELSE /\ pc' = "LoopTop"
                  /\ wait' = [wait EXCEPT !.ret = "nil",
                                          !.hit = [type |-> items[k].type,
                                                   req |-> items[k].req],
                                          !.logged = @ + DroppedIn(looked),
                                          !.others = @ + OthersIn(looked, wait.req)]
    /\ UNCHANGED << ctxDone, extensionID, subStatus, httpServer, srv, srvPc,
                    handlers, response, col, calls, http, sp >>

\* -------------------------------------------------------- processEvents
\* Mutant: a cancelled context takes the shutdown path.
LoopTop_ShutsDown ==
    /\ pc = "LoopTop"
    /\ pc' = IF ctxDone THEN "ListenerShutdown" ELSE "NextEvent"
    /\ UNCHANGED << ctxDone, extensionID, subStatus, httpServer, srv, srvPc, queue,
                    handlers, wait, examined, response, col, calls, http, sp >>

\* select { case <-ctx.Done(): return; default: ... }
LoopTop ==
    /\ pc = "LoopTop"
    /\ pc' = IF ctxDone THEN "Exited" ELSE "NextEvent"
    /\ UNCHANGED << ctxDone, extensionID, subStatus, httpServer, srv, srvPc, queue,
                    handlers, wait, examined, response, col, calls, http, sp >>

\* Mutant: only an INVOKE event is waited for; an event of another type sends
\* processEvents round its loop at once.
NextEvent_InvokeOnly ==
    /\ pc = "NextEvent"
    /\ \E resp \in ResponsesUnder(ctxDone), type \in NextEventTypes,
          req \in InvokeIds(calls.invokes) :
         /\ http' = Exchange("NextEvent", extensionID, resp, DoRequestErr(resp),
                            DoRequestErr(resp))
         /\ IF DoRequestErr(resp)
            THEN /\ pc' = "ExitError"
                 /\ calls' = Sent("next")
                 /\ UNCHANGED << response, wait >>
            ELSE IF type = Shutdown
            THEN /\ pc' = "ListenerShutdown"
                 /\ response' = [type |-> type, req |-> ""]
                 /\ calls' = Sent("next")
                 /\ UNCHANGED wait
            ELSE IF type # Invoke
            THEN /\ calls.invokes < MaxEvents
                 /\ pc' = "LoopTop"
                 /\ response' = [type |-> type, req |-> req]
                 /\ calls' = [calls EXCEPT !.next = @ + 1, !.invokes = @ + 1,
                                           !.requests = @ + 1]
                 /\ UNCHANGED wait
            ELSE /\ calls.invokes < MaxEvents
                 /\ pc' = "WaitSelect"
                 /\ response' = [type |-> type, req |-> req]
                 /\ wait' = WaitCall(req)
                 /\ calls' = [calls EXCEPT !.next = @ + 1, !.wait = @ + 1,
                                           !.invokes = @ + 1, !.requests = @ + 1]
    /\ UNCHANGED << ctxDone, extensionID, subStatus, httpServer, srv, srvPc, queue,
                    handlers, examined, col, sp >>

\* lm.extensionClient.NextEvent and the dispatch on its result: an error goes
\* to ExitError, SHUTDOWN to the shutdown sequence, anything else to
\* lm.listener.Wait(ctx, response.RequestID).
NextEvent ==
    /\ pc = "NextEvent"
    /\ \E resp \in ResponsesUnder(ctxDone), type \in NextEventTypes,
          req \in InvokeIds(calls.invokes) :
         /\ http' = Exchange("NextEvent", extensionID, resp, DoRequestErr(resp),
                            DoRequestErr(resp))
         /\ IF DoRequestErr(resp)
            THEN /\ pc' = "ExitError"
                 /\ calls' = Sent("next")
                 /\ UNCHANGED << response, wait >>
            ELSE IF type = Shutdown
            THEN /\ pc' = "ListenerShutdown"
                 /\ response' = [type |-> type, req |-> ""]
                 /\ calls' = Sent("next")
                 /\ UNCHANGED wait
            ELSE /\ calls.invokes < MaxEvents
                 /\ pc' = "WaitSelect"
                 /\ response' = [type |-> type, req |-> req]
                 /\ wait' = WaitCall(req)
                 /\ calls' = [calls EXCEPT !.next = @ + 1, !.wait = @ + 1,
                                           !.invokes = @ + 1, !.requests = @ + 1]
    /\ UNCHANGED << ctxDone, extensionID, subStatus, httpServer, srv, srvPc, queue,
                    handlers, examined, col, sp >>

\* lm.extensionClient.ExitError after a failed NextEvent; its result, error or
\* not, is dropped: nothing reads it and nothing logs it.
ExitError ==
    /\ pc = "ExitError"
    /\ \E resp \in ResponsesUnder(ctxDone) :
         http' = Exchange("ExitError", extensionID, resp, DoRequestErr(resp), FALSE)
    /\ calls' = Sent("exitErr")
    /\ pc' = "Exited"
    /\ UNCHANGED << ctxDone, extensionID, subStatus, httpServer, srv, srvPc, queue,
                    handlers, wait, examined, response, col, sp >>

\* lm.listener.Shutdown(), the nil check and the call of httpServer.Shutdown.
ListenerShutdown ==
    /\ pc = "ListenerShutdown"
    /\ IF httpServer = "nil"
       THEN pc' = "CollectorStop" /\ calls' = Bump("lsnShutdown") /\ UNCHANGED srv
       ELSE /\ srv' = "closed"
            /\ pc' = "ListenerShutdownEnd"
            /\ calls' = [calls EXCEPT !.lsnShutdown = @ + 1, !.httpShutdown = @ + 1]
    /\ UNCHANGED << ctxDone, extensionID, subStatus, httpServer, srvPc, queue,
                    handlers, wait, examined, response, col, http, sp >>

\* lm.listener.Shutdown(), the return of httpServer.Shutdown: an error is
\* logged inside Shutdown, which returns nothing to processEvents.
ListenerShutdownEnd ==
    /\ pc = "ListenerShutdownEnd"
    /\ httpServer' = IF AnyActive THEN httpServer ELSE "nil"
    /\ calls' = IF AnyActive THEN Bump("lsnShutdownErr") ELSE calls
    /\ pc' = "CollectorStop"
    /\ UNCHANGED << ctxDone, extensionID, subStatus, srv, srvPc, queue, handlers,
                    wait, examined, response, col, http, sp >>

\* --------------------------------------------------------- specification
Coordinator ==
    \/ Register \/ ListenerStart \/ Subscribe \/ Components \/ NewCollector
    \/ CollectorStart \/ CollectorGetState \/ CollectorCheck \/ InitError
    \/ LoopTop \/ NextEvent \/ ExitError \/ WaitSelect \/ WaitGet
    \/ ListenerShutdown \/ ListenerShutdownEnd \/ CollectorStop \/ CollectorStopWait

ServingGoroutine == SrvListenAndServe \/ SrvServeReturn \/ SrvShutdown \/ SrvShutdownEnd

RunGoroutine == RunSetup \/ RunReturn

\* The whole program, the platform sending runtimeDone events only.
Handlers ==
    \E h \in 1..StartupBatches :
       HandlerStart(h, RuntimeDoneElems, StartupPushed) \/ HandlerPut(h)

Next == Coordinator \/ ServingGoroutine \/ RunGoroutine \/ Handlers \/ Signal

Spec == Init /\ [][Next]_vars

\* The Go scheduler runs every runnable goroutine: the coordinator, the serving
\* goroutine, the run goroutine and a started handler each take their next
\* step when it stays possible.  The platform (a push, a signal) owes nothing.
Fairness ==
    /\ WF_vars(Coordinator)
    /\ WF_vars(ServingGoroutine)
    /\ WF_vars(RunGoroutine)
    /\ WF_vars(\E h \in 1..MaxBatches : HandlerPut(h))

FairSpec == Spec /\ Fairness

\* The steady state: the program after a startup that registered, subscribed
\* with status 200, bound the listener and saw the collector Running; the
\* platform sends telemetry of every kind.
InitSteady ==
    /\ pc = "LoopTop"
    /\ ctxDone = FALSE
    /\ extensionID \in ExtIds
    /\ subStatus = StatusOK
    /\ httpServer = "srv"
    /\ srv = "listening"
    /\ srvPc = "serving"
    /\ queue = << >>
    /\ handlers = [h \in 1..MaxBatches |->
                      [st |-> "idle", slice |-> << >>, n |-> 0, after |-> {}]]
    /\ wait = NoWait
    /\ examined = << >>
    /\ response = [type |-> "", req |-> ""]
    /\ col = [svc |-> "new", state |-> "Running", runPc |-> "loop", err |-> "nil",
              appDone |-> FALSE, stopped |-> FALSE, shutdownReq |-> FALSE,
              polled |-> "Running", startRet |-> "nil", stopRet |-> "none",
              lateErr |-> FALSE]
    /\ calls = [NoCalls EXCEPT !.register = 1, !.subscribe = 1, !.requests = 2]
    /\ http = Exchange("Subscribe", extensionID, OKResponse, FALSE, FALSE)
    /\ sp = NoSpans

\* processEvents as far as it drives the listener: up to the return of
\* lm.listener.Shutdown().  The collector, which no step of the listener reads,
\* stays as the startup left it.
EventLoop ==
    \/ LoopTop \/ NextEvent \/ ExitError \/ WaitSelect \/ WaitGet
    \/ ListenerShutdown \/ ListenerShutdownEnd

Telemetry(elems) ==
    \E h \in 1..MaxBatches : HandlerStart(h, elems, MaxPushed) \/ HandlerPut(h)

ListenerNext == EventLoop \/ SrvServeReturn \/ Telemetry(WireElems) \/ Signal

ListenerSpec == InitSteady /\ [][ListenerNext]_vars

\* The same with runtimeDone events only, and the scheduler's fairness.
RuntimeDoneNext == EventLoop \/ SrvServeReturn \/ Telemetry(RuntimeDoneElems) \/ Signal

ListenerFairSpec ==
    /\ InitSteady /\ [][RuntimeDoneNext]_vars
    /\ WF_vars(EventLoop)
    /\ WF_vars(SrvServeReturn)
    /\ WF_vars(\E h \in 1..MaxBatches : HandlerPut(h))

\* The Collector on its own, in the hands of a caller that starts it and then
\* calls Stop, as processEvents does, but up to MaxStops times.
InitCollector ==
    /\ pc = "CollectorStart"
    /\ ctxDone = FALSE
    /\ extensionID \in ExtIds
    /\ subStatus = StatusOK
    /\ httpServer = "nil"
    /\ srv = "none"
    /\ srvPc = "none"
    /\ queue = << >>
    /\ handlers = [h \in 1..MaxBatches |->
                      [st |-> "idle", slice |-> << >>, n |-> 0, after |-> {}]]
    /\ wait = NoWait
    /\ examined = << >>
    /\ response = [type |-> "", req |-> ""]
    /\ col = [svc |-> "nil", state |-> "Starting", runPc |-> "none", err |-> "nil",
              appDone |-> FALSE, stopped |-> FALSE, shutdownReq |-> FALSE,
              polled |-> "Starting", startRet |-> "none", stopRet |-> "none",
              lateErr |-> FALSE]
    /\ calls = [NoCalls EXCEPT !.register = 1, !.subscribe = 1, !.requests = 2]
    /\ http = Exchange("Subscribe", extensionID, OKResponse, FALSE, FALSE)
    /\ sp = NoSpans

\* The caller calls c.Stop(): after Start returned nil, and again after Stop
\* returned.
CallStop ==
    /\ pc \in {"LoopTop", "Stopped"}
    /\ calls.stop < MaxStops
    /\ pc' = "CollectorStop"
    /\ col' = [col EXCEPT !.stopRet = "none"]
    /\ UNCHANGED << ctxDone, extensionID, subStatus, httpServer, srv, srvPc, queue,
                    handlers, wait, examined, response, calls, http, sp >>

CollectorNext ==
    \/ CollectorStart \/ CollectorGetState \/ CollectorCheck
    \/ CallStop \/ CollectorStop \/ CollectorStopWait
    \/ RunSetup \/ RunReturn \/ Signal

CollectorSpec == InitCollector /\ [][CollectorNext]_vars

CollectorFairSpec ==
    /\ CollectorSpec
    /\ WF_vars(CollectorStart \/ CollectorGetState \/ CollectorCheck
                 \/ CollectorStop \/ CollectorStopWait)
    /\ WF_vars(RunGoroutine)

\* ------------------------------- processEvents without the telemetry API
\* The variant of main that correlates by the span processor: the collector is
\* started and the extension registered, then processEvents runs.
InitDegraded ==
    /\ pc = "DLoopTop"
    /\ ctxDone = FALSE
    /\ extensionID \in ExtIds
    /\ subStatus = 0
    /\ httpServer = "nil"
    /\ srv = "none"
    /\ srvPc = "none"
    /\ queue = << >>
    /\ handlers = [h \in 1..MaxBatches |->
                      [st |-> "idle", slice |-> << >>, n |-> 0, after |-> {}]]
    /\ wait = NoWait
    /\ examined = << >>
    /\ response = [type |-> "", req |-> ""]
    /\ col = [svc |-> "new", state |-> "Running", runPc |-> "loop", err |-> "nil",
              appDone |-> FALSE, stopped |-> FALSE, shutdownReq |-> FALSE,
              polled |-> "Running", startRet |-> "nil", stopRet |-> "none",
              lateErr |-> FALSE]
    /\ calls = [NoCalls EXCEPT !.register = 1, !.requests = 1]
    /\ http = Exchange("Register", "", OKResponse, FALSE, FALSE)
    /\ sp = NoSpans

\* A span starts in the pipeline: the count goes up and waitCh is signalled.
SpanStart ==
    /\ Alive
    /\ sp.active < MaxSpans
    /\ sp' = [sp EXCEPT !.active = @ + 1, !.waitCh = TRUE]
    /\ UNCHANGED << pc, ctxDone, extensionID, subStatus, httpServer, srv, srvPc,
                    queue, handlers, wait, examined, response, col, calls, http >>

\* A span ends: the count goes down.
SpanEnd ==
    /\ Alive
    /\ sp.active > 0
    /\ sp' = [sp EXCEPT !.active = @ - 1]
    /\ UNCHANGED << pc, ctxDone, extensionID, subStatus, httpServer, srv, srvPc,
                    queue, handlers, wait, examined, response, col, calls, http >>

\* select { case <-ctx.Done(): return; default: ... }
DegradedLoopTop ==
    /\ pc = "DLoopTop"
    /\ pc' = IF ctxDone THEN "Exited" ELSE "DNextEvent"
    /\ UNCHANGED << ctxDone, extensionID, subStatus, httpServer, srv, srvPc, queue,
                    handlers, wait, examined, response, col, calls, http, sp >>

\* extensionClient.NextEvent and the dispatch on its result: an error returns,
\* SHUTDOWN goes to collector.Stop and returns, anything else goes on to the
\* select on sp.waitCh.
DegradedNextEvent ==
    /\ pc = "DNextEvent"
    /\ \E resp \in ResponsesUnder(ctxDone), type \in NextEventTypes :
         /\ http' = Exchange("NextEvent", extensionID, resp, DoRequestErr(resp),
                            DoRequestErr(resp))
         /\ IF DoRequestErr(resp)
            THEN /\ pc' = "Exited"
                 /\ calls' = Sent("next")
                 /\ UNCHANGED << response, sp >>
            ELSE IF type = Shutdown
            THEN /\ pc' = "CollectorStop"
                 /\ response' = [type |-> type, req |-> ""]
                 /\ calls' = Sent("next")
                 /\ UNCHANGED sp
            ELSE /\ calls.invokes < MaxEvents
                 /\ pc' = "DSelect"
                 /\ response' = [type |-> type, req |-> ""]
                 /\ calls' = [calls EXCEPT !.next = @ + 1, !.invokes = @ + 1,
                                           !.requests = @ + 1]
                 /\ sp' = [sp EXCEPT !.observed = -1, !.woke = "none"]
    /\ UNCHANGED << ctxDone, extensionID, subStatus, httpServer, srv, srvPc, queue,
                    handlers, wait, examined, col >>

\* select { case <-sp.waitCh: case <-time.After(1000 * time.Millisecond): }:
\* the signal is taken when one is ready, or the timer fires.
DegradedSelect ==
    /\ pc = "DSelect"
    /\ \/ /\ sp.waitCh
          /\ sp' = [sp EXCEPT !.waitCh = FALSE, !.woke = "signal"]
       \/ sp' = [sp EXCEPT !.woke = "timeout"]
    /\ pc' = "DPoll"
    /\ UNCHANGED << ctxDone, extensionID, subStatus, httpServer, srv, srvPc, queue,
                    handlers, wait, examined, response, col, calls, http >>

\* Mutant: the polling gives up after one sleep.
DegradedPoll_GivesUp ==
    /\ pc = "DPoll"
    /\ sp' = [sp EXCEPT !.observed = sp.active]
    /\ pc' = IF sp.active > 0 /\ sp.observed = -1 THEN "DSleep" ELSE "DLoopTop"
    /\ UNCHANGED << ctxDone, extensionID, subStatus, httpServer, srv, srvPc, queue,
                    handlers, wait, examined, response, col, calls, http >>

\* for count := sp.activeSpanCount(); count > 0; count = sp.activeSpanCount():
\* one reading of the count and the loop's test.
DegradedPoll ==
    /\ pc = "DPoll"
    /\ sp' = [sp EXCEPT !.observed = sp.active]
    /\ pc' = IF sp.active > 0 THEN "DSleep" ELSE "DLoopTop"
    /\ UNCHANGED << ctxDone, extensionID, subStatus, httpServer, srv, srvPc, queue,
                    handlers, wait, examined, response, col, calls, http >>

\* time.Sleep(1 * time.Millisecond) in the body of the polling loop.
DegradedSleep ==
    /\ pc = "DSleep"
    /\ pc' = "DPoll"
    /\ UNCHANGED << ctxDone, extensionID, subStatus, httpServer, srv, srvPc, queue,
                    handlers, wait, examined, response, col, calls, http, sp >>

DegradedNext ==
    \/ DegradedLoopTop \/ DegradedNextEvent \/ DegradedSelect
    \/ DegradedPoll \/ DegradedSleep
    \/ CollectorStop \/ CollectorStopWait \/ RunReturn
    \/ SpanStart \/ SpanEnd \/ Signal

DegradedSpec == InitDegraded /\ [][DegradedNext]_vars

\* ---------------------------------------------------------------- claims
\* The match condition of the specification: a "runtime done" event whose
\* request id is the awaited one.
Matches(e, requestId) == e.type = PLATFORM_RUNTIME_DONE /\ e.req = requestId

InWait == pc \in {"WaitSelect", "WaitGet"}

\* In a step that removes events from the queue: the events removed.
Dequeued == SubSeq(queue, 1, Len(queue) - Len(queue'))

\* C1: Listener.Wait(ctx, R) returns nil if and only if it has dequeued a
\* platform.runtimeDone event whose requestId is R: Wait's result becomes nil
\* only in a step that dequeues such an event, a step that dequeues none
\* leaves Wait in its loop, and a dequeue only removes a prefix of the queue.
C1_WaitSuccessIffMatch ==
    [][ /\ (wait'.ret = "nil" /\ wait.ret # "nil") =>
              /\ pc = "WaitGet"
              /\ \E i \in 1..Len(Dequeued) : Matches(Dequeued[i], wait.req)
        /\ (Len(queue') < Len(queue)) =>
              /\ pc = "WaitGet"
              /\ queue' = SubSeq(queue, Len(Dequeued) + 1, Len(queue))
              /\ (\A i \in 1..Len(Dequeued) : ~Matches(Dequeued[i], wait.req)) =>
                    (pc' = "WaitSelect" /\ wait'.ret = "none")
              /\ (\E i \in 1..Len(Dequeued) : Matches(Dequeued[i], wait.req)) =>
                    (pc' = "LoopTop" /\ wait'.ret = "nil")
      ]_vars

\* Wait has skipped one event and returned nil on the next one.
C1_Witness ==
    /\ wait.ret = "nil"
    /\ Len(examined) = 2
    /\ Matches(wait.hit, wait.req)

\* a examined before b respects the order of arrival: within a batch the
\* positions rise, and b's request had not completed before a's began.
InOrder(a, b) ==
    /\ a[1] = b[1] => a[2] < b[2]
    /\ b[1] \notin handlers[a[1]].after

\* C2: Wait examines the events in the order in which they were put on the
\* queue: events of one batch in their order in the batch, events of a request
\* that completed earlier before those of a later request.
C2_WaitExaminesInArrivalOrder ==
    \A i, j \in 1..Len(examined) : i < j => InOrder(examined[i], examined[j])

\* Wait has examined events of two requests, the second request begun after
\* the first completed.
C2_Witness ==
    /\ Len(examined) = 2
    /\ examined[1][1] = 1
    /\ examined[2][1] = 2
    /\ 1 \in handlers[2].after

\* C4: a platform.logsDropped event never satisfies the match condition, also
\* when it carries the awaited requestId, and never makes Wait return: Wait
\* reports it and goes on to the next event.
C4_LogsDroppedNeverMatches ==
    /\ [](wait.ret = "nil" => wait.hit.type # PLATFORM_LOGS_DROPPED)
    /\ [][ (pc = "WaitGet" /\ Len(queue') < Len(queue)) =>
              LET looked == SubSeq(Dequeued, 1, Len(examined') - Len(examined)) IN
              /\ wait'.logged = wait.logged + DroppedIn(looked)
              /\ (\A i \in 1..Len(Dequeued) : Dequeued[i].type = PLATFORM_LOGS_DROPPED) =>
                    (pc' = "WaitSelect" /\ wait'.ret = "none" /\ looked = Dequeued)
         ]_vars

\* Wait has reported a logsDropped event that carries the awaited id and is
\* back at its select.
C4_Witness ==
    /\ pc = "WaitSelect"
    /\ wait.req = "abc"
    /\ wait.ret = "none"
    /\ wait.logged > 0

\* C3: Wait returns the cancellation error after ctx is cancelled, also when
\* the queue is empty and nothing is pushed any more.
C3_WaitReturnsAfterCancel == (ctxDone /\ InWait) ~> ~InWait

\* The case of the second scenario: while Wait(ctx, R) is waiting, a
\* runtimeDone event of another request has arrived and the runtimeDone event
\* of R after it.
C5_OtherThenMatch ==
    /\ InWait
    /\ \E j \in 1..Len(queue) :
         /\ Matches(queue[j], wait.req)
         /\ \/ wait.others > 0
            \/ \E i \in 1..(j - 1) :
                  queue[i].type = PLATFORM_RUNTIME_DONE /\ queue[i].req # wait.req

\* C5: from every state in which Wait(ctx, R) is waiting, has passed over or
\* still has before it a runtimeDone event of another request, and has the
\* runtimeDone event of R in the queue, Wait comes to return nil on the event
\* of R, or ctx is cancelled.
C5_WaitSucceedsAfterOtherRequest ==
    C5_OtherThenMatch ~> (ctxDone \/ (wait.ret = "nil" /\ Matches(wait.hit, wait.req)))

\* Wait passed over the runtimeDone event of another request and returned nil
\* on the matching event that a later request brought.
C5_Witness ==
    /\ ~ctxDone
    /\ wait.ret = "nil"
    /\ wait.others = 1
    /\ Matches(wait.hit, wait.req)
    /\ examined = << <<1, 1>>, <<2, 1>> >>
    /\ 1 \in handlers[2].after

\* The case of the first scenario: the subscription was answered 200, an Invoke
\* for R came, and the queue holds the runtimeDone event of R and nothing else.
C6_SingleMatchingEvent ==
    /\ InWait
    /\ subStatus = StatusOK
    /\ response.type = Invoke
    /\ Len(queue) = 1
    /\ Matches(queue[1], wait.req)

\* C6: after a startup with subscribe status 200 and an Invoke for R, a single
\* batch that holds only the runtimeDone event of R makes Wait return nil, and
\* the coordinator calls NextEvent again (unless ctx is cancelled).
C6_SingleEventEndsWait ==
    C6_SingleMatchingEvent ~> (ctxDone \/ (wait.ret = "nil" /\ pc = "NextEvent"))

\* The coordinator is about to call NextEvent a second time after Wait
\* returned nil on the only event pushed.
C6_Witness ==
    /\ ~ctxDone
    /\ pc = "NextEvent"
    /\ calls.next = 1
    /\ response.type = Invoke
    /\ wait.ret = "nil"
    /\ Pushed = 1
    /\ Len(examined) = 1

\* C7: after a subscription answered with status 202 the coordinator never
\* calls Listener.Wait.
C7_NoWaitAfter202 == subStatus = StatusAccepted => calls.wait = 0

\* C8: once Listener.Start has returned, so when the subscription request is
\* sent, the listening socket is bound and accepts connections.
C8_ListeningBeforeSubscribe == pc = "Subscribe" => srv = "listening"

\* C9: after a Shutdown event the listener and the collector are both stopped,
\* and an error of the listener's shutdown is reported by one ExitError call.
C9_ShutdownErrorReported ==
    pc = "Stopped" =>
        /\ calls.lsnShutdown = 1
        /\ calls.stop = 1
        /\ calls.lsnShutdownErr = 1 => calls.exitErr = 1

ShutdownSeen == response.type = Shutdown

\* C10: on a Shutdown event the coordinator stops the listener, then the
\* collector, each once, makes no further NextEvent or Wait call, and ends.
C10_ShutdownSequence ==
    /\ [](ShutdownSeen =>
            /\ pc \in {"ListenerShutdown", "ListenerShutdownEnd", "CollectorStop",
                        "CollectorStopWait", "Stopped"}
            /\ calls.lsnShutdown = (IF pc = "ListenerShutdown" THEN 0 ELSE 1)
            /\ calls.stop = (IF pc \in {"CollectorStopWait", "Stopped"} THEN 1 ELSE 0))
    /\ [][ShutdownSeen => (calls'.next = calls.next /\ calls'.wait = calls.wait)]_vars
    /\ (ShutdownSeen ~> pc = "Stopped")

\* The shutdown sequence has run to its end after an invocation.
C10_Witness ==
    /\ pc = "Stopped"
    /\ ShutdownSeen
    /\ calls.invokes > 0
    /\ calls.lsnShutdown = 1
    /\ calls.stop = 1

\* C11: a termination signal cancels the context and drives the coordinator
\* through the shutdown path of a Shutdown event: when the coordinator ends
\* after the signal, the listener and the collector have both been stopped.
C11_SignalStopsBoth ==
    (ctxDone /\ pc = "Exited") => (calls.lsnShutdown = 1 /\ calls.stop = 1)

\* The subscription request was sent and failed.
SubscribeFailed == calls.subscribe = 1 /\ subStatus = 0 /\ pc = "Failed"

\* C12: after a successful registration a failed subscription puts the
\* coordinator in Failed, is reported by an InitError call, and the event loop
\* is not entered.
C12_SubscribeFailureReported ==
    SubscribeFailed => (calls.initErr = 1 /\ calls.next = 0)

RegisterFailed == calls.register = 1 /\ extensionID = ""

\* C14: after a failed registration the coordinator is in Failed, has called
\* neither InitError nor ExitError, and has not started the listener, not
\* subscribed, not started the collector and not polled for events.
C14_RegisterFailureEndsStartup ==
    RegisterFailed =>
        /\ pc = "Failed"
        /\ calls.initErr = 0 /\ calls.exitErr = 0
        /\ httpServer = "nil" /\ srvPc = "none"
        /\ calls.subscribe = 0
        /\ col.svc = "nil" /\ col.runPc = "none"
        /\ calls.next = 0

\* The coordinator has ended after a registration answered with a status
\* other than 200.
C14_Witness == RegisterFailed /\ pc = "Failed" /\ ~ctxDone

\* Listener.Wait has returned an error to processEvents.
DrainError == wait.ret = "ctx"

\* C15 as stated: after an error of the drain step the coordinator calls
\* NextEvent again.
C15_NextEventAfterDrainError == DrainError ~> (pc = "NextEvent")

\* C15, amended: an error of Listener.Wait is only logged; the coordinator
\* goes to the top of its loop without an ExitError call and without the
\* shutdown sequence.  The error is the context's, so the loop ends there, at
\* its own ctx.Done() check, and NextEvent is not called again.
C15_DrainErrorFallsThrough ==
    /\ [][(~DrainError /\ DrainError') =>
             (pc' = "LoopTop" /\ calls' = calls)]_vars
    /\ [](DrainError =>
             /\ ctxDone
             /\ pc \in {"LoopTop", "Exited"}
             /\ calls.exitErr = 0 /\ calls.lsnShutdown = 0 /\ calls.stop = 0)
    /\ (DrainError ~> pc = "Exited")

\* processEvents has returned after Wait gave it the context's error.
C15_Witness == DrainError /\ pc = "Exited" /\ calls.wait = 1

\* A Listener.Wait call has been entered and has not returned.
WaitOutstanding == wait.req # "" /\ wait.ret = "none"

\* C16: at most one Wait call is in flight and never together with a NextEvent
\* call: a Wait call is made only with the response of a NextEvent call, the
\* coordinator stays inside an unreturned Wait, and neither a NextEvent nor a
\* further Wait call is made before the Wait call before it has returned.
C16_NextEventAndWaitAlternate ==
    /\ [](/\ calls.wait <= calls.next
          /\ WaitOutstanding => InWait)
    /\ [][ /\ calls'.wait \in {calls.wait, calls.wait + 1}
           /\ calls'.wait = calls.wait + 1 =>
                 (calls'.next = calls.next + 1 /\ ~WaitOutstanding)
           /\ calls'.next = calls.next + 1 => (pc = "NextEvent" /\ ~WaitOutstanding)
         ]_vars

\* A second Wait call is in flight, made after the first one returned.
C16_Witness == calls.wait = 2 /\ calls.next = 2 /\ WaitOutstanding /\ InWait

\* C17: over every interleaving of Listener.Shutdown calls, of the coordinator
\* and of the serving goroutine, the HTTP server is shut down at most once.
C17_ServerShutDownAtMostOnce == calls.httpShutdown <= 1

\* C18: over a sequence of Collector.Stop calls the service's Shutdown is
\* called once, by the first of them, and a Stop call returns only when the
\* run goroutine has returned and closed appDone, which it comes to do.
C18_StopIdempotentAndBlocking ==
    /\ [](calls.svcShutdown = (IF calls.stop = 0 THEN 0 ELSE 1))
    /\ [][(pc = "CollectorStopWait" /\ pc' # "CollectorStopWait") =>
             (pc' = "Stopped" /\ col.appDone /\ col.runPc = "returned")]_vars
    /\ (pc = "CollectorStopWait" ~> pc = "Stopped")

\* A second Stop call has returned.
C18_Witness ==
    /\ pc = "Stopped"
    /\ calls.stop = 2
    /\ calls.svcShutdown = 1
    /\ col.appDone

\* C19: Collector.Start returns nil only when it has read the state Running,
\* with the run goroutine past its setup; it does not return nil on a state
\* other than Starting and Running, and once the service is Closed when Start
\* reads the state (Run failed, or ended) Start comes to return an error.
C19_StartReturnsNilOnlyWhenRunning ==
    /\ [](col.startRet = "nil" =>
             /\ col.polled = "Running"
             /\ col.svc = "new"
             /\ col.runPc \in {"loop", "returned"})
    /\ [][ /\ (col.startRet = "none" /\ col'.startRet = "nil") =>
                 (pc = "CollectorCheck" /\ col.polled = "Running" /\ pc' = "LoopTop")
           /\ (pc = "CollectorCheck" /\ col.polled \notin {"Starting", "Running"}) =>
                 col'.startRet # "nil"
         ]_vars
    /\ ((pc = "CollectorPoll" /\ col.state = "Closed") ~> col.startRet = "err")

\* Start has returned nil and the run loop is executing.
C19_Witness ==
    /\ col.startRet = "nil"
    /\ pc = "LoopTop"
    /\ col.runPc = "loop"
    /\ col.state = "Running"

\* C20: when svc.Run has returned an error after Collector.Start returned nil,
\* the Collector.Stop call that follows returns an error.
C20_LateRunErrorReturnedByStop ==
    (col.lateErr /\ col.stopRet # "none") => col.stopRet = "err"

\* C21: Client.Subscribe sends one PUT and returns by the response alone: no
\* error on status 200 and on status 202, an error on every other status and
\* on a transport failure; the subscription is sent once.
C21_SubscribeThreeOutcomes ==
    /\ calls.subscribe <= 1
    /\ http.call = "Subscribe" =>
         /\ calls.requests = calls.register + 1
         /\ (http.resp.transportOK /\ http.resp.status \in {200, 202}) => ~http.err
         /\ (~http.resp.transportOK \/ http.resp.status \notin {200, 202}) => http.err
         /\ http.err => pc = "Failed"

\* The subscription was answered 202 and startup goes on.
C21_Witness ==
    /\ http.call = "Subscribe"
    /\ http.resp.transportOK
    /\ http.resp.status = 202
    /\ ~http.err
    /\ pc = "Components"

ControlPlaneCalls == {"Register", "NextEvent", "InitError", "ExitError"}

\* C22: every call of the control-plane client (Register, NextEvent, InitError,
\* ExitError) sends exactly one HTTP request; it returns an error when the
\* transport fails and when the status is not 200; and no failed call is made
\* again: Register, InitError and ExitError are called at most once, and a
\* failed call is never followed by another request of the same call.
C22_OneRequestPerCallNoRetry ==
    /\ [](/\ calls.requests = calls.register + calls.subscribe + calls.next
                                + calls.initErr + calls.exitErr
          /\ calls.register <= 1
          /\ calls.initErr <= 1
          /\ calls.exitErr <= 1
          /\ (http.call \in ControlPlaneCalls
                /\ (~http.resp.transportOK \/ http.resp.status # 200)) => http.err)
    /\ [][ /\ calls'.requests <= calls.requests + 1
           /\ (http.call = "Register" /\ http.err) => calls'.register = calls.register
           /\ (http.call = "NextEvent" /\ http.err) => calls'.next = calls.next
           /\ (http.call = "InitError" /\ http.err) => calls'.requests = calls.requests
           /\ (http.call = "ExitError" /\ http.err) => calls'.requests = calls.requests
         ]_vars

\* NextEvent was answered with a status other than 200, returned an error, and
\* the coordinator is about to report it.
C22_Witness ==
    /\ http.call = "NextEvent"
    /\ http.resp.transportOK
    /\ http.resp.status = 202
    /\ http.err
    /\ pc = "ExitError"
    /\ calls.next = 2

\* C23: the extension identifier is stored by the successful Register and by
\* nothing else: once set it never changes, every later NextEvent, InitError,
\* ExitError and Subscribe request carries it, and none of them is sent
\* without it.
C23_IdentifierCapturedOnceAndAttached ==
    /\ [](http.call \in {"NextEvent", "InitError", "ExitError", "Subscribe"} =>
             /\ http.id \in ExtIds
             /\ http.id = extensionID)
    /\ [][ /\ extensionID' # extensionID =>
                 /\ pc = "Register"
                 /\ extensionID = ""
                 /\ http'.call = "Register"
                 /\ ~http'.err
           /\ (pc = "Register" /\ http'.call = "Register" /\ ~http'.err) =>
                 extensionID' \in ExtIds
         ]_vars

\* The identifier is in place and an ExitError request has carried it, after a
\* NextEvent request that carried it as well.
C23_Witness ==
    /\ extensionID \in ExtIds
    /\ http.call = "ExitError"
    /\ http.id = extensionID
    /\ calls.next >= 1
    /\ calls.subscribe = 1
    /\ pc = "Exited"

\* Decoding batch h failed on an element that is no telemetry object: the zero
\* Event json.Unmarshal left in its place is still to put, or is on the queue.
\* (No telemetry object of the platform has the empty type.)
DecodeFailed(h) ==
    \/ \E i \in 1..Len(handlers[h].slice) :
          /\ handlers[h].slice[i].type = ZeroEvent.type
          /\ handlers[h].slice[i].req = ZeroEvent.req
    \/ \E i \in 1..Len(queue) :
          /\ queue[i].id[1] = h
          /\ queue[i].type = ZeroEvent.type
          /\ queue[i].req = ZeroEvent.req

\* C24: a batch whose decoding failed is dropped whole: none of its events is
\* put on the queue.
C24_UndecodableBatchDropped ==
    \A h \in 1..MaxBatches :
        DecodeFailed(h) => \A i \in 1..Len(queue) : queue[i].id[1] # h

\* C25: the handler never waits for the consumer: while the process runs, the
\* next Put of a handler that has decoded its body can be taken in every state,
\* whatever the coordinator is doing, and the handlers come to return (a state
\* with a handler at work leads to one with none, a handler being at work
\* once); a queue that gets shorter, or loses its head, does so in a step of
\* Wait's Get.
C25_HandlerNeverWaitsForConsumer ==
    /\ [](\A h \in 1..MaxBatches :
             (Alive /\ handlers[h].st = "active") => ENABLED HandlerPut(h))
    /\ AnyActive ~> (~AnyActive \/ ~Alive)
    /\ [][ (Len(queue') < Len(queue) \/ (queue # << >> /\ queue' # << >>
                                          /\ Head(queue') # Head(queue))) =>
              (pc = "WaitGet" /\ wait.ret = "none"
               /\ queue' = QueueGetRest(queue, minBatchSize)) ]_vars

\* A handler has put its events and returned though Wait was never called.
C25_Witness ==
    /\ calls.wait = 0
    /\ handlers[1].st = "done"
    /\ handlers[1].n > 0
    /\ Len(queue) = handlers[1].n
    /\ pc \in {"LoopTop", "NextEvent"}

Polling == pc \in {"DPoll", "DSleep"}

\* C26: without the telemetry API, after an event that is not SHUTDOWN
\* processEvents leaves its select only by taking a signal from waitCh or by
\* the timer; it then leaves the polling loop only on reading a count of zero
\* (no number of polls and no cancelled context ends the loop), and it calls
\* NextEvent again only after it has read that zero.
C26_DegradedWaitsThenPollsToZero ==
    [][ /\ pc = "DSelect" => pc' \in {"DSelect", "DPoll"}
        /\ (pc = "DSelect" /\ pc' = "DPoll") =>
              \/ (sp.waitCh /\ ~sp'.waitCh /\ sp'.woke = "signal")
              \/ sp'.woke = "timeout"
        /\ (Polling /\ ~Polling') =>
              (pc = "DPoll" /\ sp.active = 0 /\ sp'.observed = 0 /\ pc' = "DLoopTop")
        /\ (calls'.next = calls.next + 1 /\ calls.invokes >= 1) =>
              (sp.observed = 0 /\ sp.woke # "none")
      ]_vars

\* After an event the signal was taken, the count was read as zero, and
\* NextEvent is about to be called again.
C26_Witness ==
    /\ pc = "DNextEvent"
    /\ calls.invokes = 1
    /\ sp.woke = "signal"
    /\ sp.observed = 0

\* C27: a failed InitError or ExitError call is logged, is the only error
\* report of the run, and leaves the coordinator where a successful call
\* leaves it: at the end of the startup, or of processEvents.
C27_FailedReportLoggedAndIgnored ==
    (http.call \in {"InitError", "ExitError"} /\ http.err) =>
        /\ http.logged
        /\ calls.initErr + calls.exitErr = 1
        /\ pc = IF http.call = "InitError" THEN "Failed" ELSE "Exited"

\* C28: processEvents returns only with the listener and the collector both
\* stopped: whenever the coordinator has ended after a successful startup,
\* Listener.Shutdown and Collector.Stop have been called and the collector's
\* run goroutine has finished.
C28_ReturnsOnlyAfterBothStopped ==
    pc \in {"Exited", "Stopped"} =>
        /\ calls.lsnShutdown >= 1
        /\ calls.stop >= 1
        /\ col.appDone

\* Two goroutines are inside Listener.Shutdown, one about to assign
\* s.httpServer = nil while the other is about to read or assign it.
HttpServerRace ==
    /\ ~AnyActive
    /\ \/ pc = "ListenerShutdownEnd" /\ srvPc \in {"Shutdown", "ShutdownEnd"}
       \/ srvPc = "ShutdownEnd" /\ pc \in {"ListenerShutdown", "ListenerShutdownEnd"}

\* Collector.Start is about to read err while the run goroutine, whose Run may
\* return an error at any moment, is about to assign it.
StartErrRace ==
    /\ pc = "CollectorCheck"
    /\ col.runPc = "loop"
    /\ ENABLED RunReturn

\* C29: apart from the queue no variable is written by one goroutine while
\* another reads or writes it: neither Listener.httpServer nor the err of
\* Collector.Start is ever in the hands of two goroutines at once.
C29_QueueOnlySharedState == ~HttpServerRace /\ ~StartErrRace

\* C30: the startup runs register, start listener, subscribe, start collector,
\* each step begun only when the one before it has succeeded: the listener is
\* started with the extension registered, the subscription is sent with the
\* listener listening, the collector is set up with the subscription accepted,
\* and NextEvent is called only after Collector.Start returned nil.
C30_StartupStepsInOrder ==
    /\ pc = "ListenerStart" => (calls.register = 1 /\ extensionID \in ExtIds)
    /\ pc = "Subscribe" => (calls.register = 1 /\ srv = "listening")
    /\ pc \in {"Components", "NewCollector", "CollectorStart"} =>
          (calls.subscribe = 1 /\ subStatus \in {StatusOK, StatusAccepted})
    /\ calls.next >= 1 => col.startRet = "nil"

\* C31: once the context is cancelled the coordinator comes to return from
\* whatever step it is in: the startup or processEvents ends.
C31_CancelEndsEventLoop == ctxDone ~> ~Alive

\* C32: processEvents calls Listener.Shutdown and Collector.Stop only on a
\* SHUTDOWN event: each call is made with the last NextEvent response of type
\* SHUTDOWN, and when processEvents has returned on the cancelled context or
\* after a failed NextEvent it has called neither.
C32_StopsOnlyOnShutdownEvent ==
    /\ []((calls.lsnShutdown >= 1 \/ calls.stop >= 1) => ShutdownSeen)
    /\ [](pc = "Exited" => (calls.lsnShutdown = 0 /\ calls.stop = 0))
    /\ [][ (calls'.lsnShutdown # calls.lsnShutdown \/ calls'.stop # calls.stop) =>
              (ShutdownSeen /\ http.call = "NextEvent" /\ ~http.err) ]_vars

\* processEvents has returned after a failed NextEvent, reported by ExitError,
\* with neither the listener nor the collector stopped.
C32_Witness ==
    /\ pc = "Exited"
    /\ http.call = "ExitError"
    /\ calls.next >= 1
    /\ calls.lsnShutdown = 0
    /\ calls.stop = 0
    /\ ~col.stopped

\* The ids of the events the handlers have put on the queue so far, of those on
\* the queue now, and of those that were put and are on the queue no more.
PutIds ==
    UNION { { << h, i >> : i \in 1..(handlers[h].n - Len(handlers[h].slice)) } :
            h \in 1..MaxBatches }
QueueIds == { queue[i].id : i \in 1..Len(queue) }
RemovedIds == PutIds \ QueueIds
ExaminedIds == { examined[i] : i \in 1..Len(examined) }

\* C33: what a Get of Listener.Wait takes off the queue is gone for good: a
\* removed event never comes back to the queue, a Get removes every item it
\* took (those after the match as well), no examined event is on the queue,
\* and no event is examined twice, by the same or by a later Wait call.
C33_DequeuedEventsGone ==
    /\ [](/\ ExaminedIds \subseteq RemovedIds
          /\ Cardinality(ExaminedIds) = Len(examined))
    /\ [][ /\ RemovedIds \subseteq RemovedIds'
           /\ Len(queue') < Len(queue) =>
                 /\ pc = "WaitGet"
                 /\ RemovedIds' = RemovedIds \cup
                       { QueueGetItems(queue, minBatchSize)[i].id :
                           i \in 1..Len(QueueGetItems(queue, minBatchSize)) }
         ]_vars

\* A second Wait call is waiting; the first one returned on its match and the
\* event behind the match, taken by the same Get, is gone unexamined.
C33_Witness ==
    /\ calls.wait = 2
    /\ InWait
    /\ queue = << >>
    /\ Len(examined) = 1
    /\ Cardinality(RemovedIds) = 2

\* C34: when Listener.Wait finds the context cancelled at its select, at the
\* call or between two Gets, it returns the context's error and takes nothing:
\* the step that returns the error leaves the queue and the examined events as
\* they are, and the error is returned by that select and by nothing else.
C34_CancelledWaitLeavesQueue ==
    [][ /\ (pc = "WaitSelect" /\ ctxDone /\ pc' # pc) =>
              (wait'.ret = "ctx" /\ pc' = "LoopTop"
               /\ queue' = queue /\ examined' = examined)
        /\ (wait.ret # "ctx" /\ wait'.ret = "ctx") =>
              (pc = "WaitSelect" /\ ctxDone /\ queue' = queue /\ examined' = examined)
      ]_vars

\* Wait took events without a match, the context was cancelled, and Wait
\* returned its error with an event waiting on the queue.
C34_Witness ==
    /\ wait.ret = "ctx"
    /\ pc = "LoopTop"
    /\ Len(examined) >= 1
    /\ Len(queue) >= 1
    /\ calls.wait = 1

\* C35: Listener.Start returns with no error before anything is bound, and
\* the coordinator goes on to Subscribe; a failed bind shows in the serving
\* goroutine alone, which goes on to call Shutdown, and the coordinator's
\* next startup steps stay open to it whatever the server's state.
C35_StartReturnsBeforeBind ==
    /\ [][ /\ (pc = "ListenerStart" /\ pc' # pc) =>
                 (pc' = "Subscribe" /\ srv' = "new" /\ srvPc' = "ListenAndServe")
           /\ (srv # "failed" /\ srv' = "failed") =>
                 (srvPc = "ListenAndServe" /\ srvPc' = "Shutdown" /\ pc' = pc)
         ]_vars
    /\ [](pc = "Subscribe" => ENABLED Subscribe)
    /\ [](pc = "CollectorStart" => ENABLED CollectorStart)

\* The bind has failed, and the coordinator has subscribed, started the
\* collector and entered its event loop.
C35_Witness ==
    /\ srv = "failed"
    /\ calls.subscribe = 1
    /\ subStatus = StatusOK
    /\ col.startRet = "nil"
    /\ pc = "NextEvent"

\* C36: every event NextEvent returns whose type is not SHUTDOWN, INVOKE or
\* not, is waited for: the step that receives it calls Listener.Wait with the
\* event's request id, and the next NextEvent call is made only after that
\* Wait call has returned.
C36_EveryOtherEventIsWaitedFor ==
    /\ [][ /\ (calls'.next = calls.next + 1 /\ ~http'.err
                 /\ response'.type # Shutdown) =>
                 /\ pc' = "WaitSelect"
                 /\ calls'.wait = calls.wait + 1
                 /\ wait'.req = response'.req
                 /\ wait'.ret = "none"
           /\ (calls'.next = calls.next + 1 /\ calls.invokes >= 1) =>
                 (wait.req = response.req /\ wait.ret # "none")
         ]_vars
    /\ [](InWait => (wait.req = response.req /\ response.type # Shutdown))

\* An event of an unknown type has been received and Wait is waiting for its
\* request id.
C36_Witness ==
    /\ InWait
    /\ response.type = ""
    /\ response.req = "abc"
    /\ wait.req = "abc"
    /\ wait.ret = "none"
    /\ calls.wait = calls.next

\* C37: a Register call fails exactly when the transport fails, the status is
\* not 200 or the body cannot be decoded; the failing call returns a nil
\* response with its error and leaves the client's stored extension
\* identifier as it was.
C37_FailedRegisterLeavesIdentifier ==
    /\ [][ (pc = "Register" /\ http'.call = "Register" /\ http'.err) =>
              /\ http'.result = "nil"
              /\ extensionID' = extensionID
         ]_vars
    /\ [](http.call = "Register" =>
             /\ http.err <=> \/ ~http.resp.transportOK
                             \/ http.resp.status # StatusOK
                             \/ ~http.resp.bodyOK
             /\ http.err => (http.result = "nil" /\ extensionID = ""))

\* Register was answered with status 200 and a body that is no JSON: it
\* returned an error and no identifier is stored.
C37_Witness ==
    /\ http.call = "Register"
    /\ http.resp.transportOK
    /\ http.resp.status = StatusOK
    /\ ~http.resp.bodyOK
    /\ http.err
    /\ http.result = "nil"
    /\ extensionID = ""
    /\ calls.register = 1

\* Collector.Start is in its polling loop.
StartPolling == pc \in {"CollectorPoll", "CollectorCheck"}

\* C38: Collector.Start terminates.  With the run goroutine and the polling
\* loop both scheduled fairly, once the service has left Starting or Run has
\* returned, Start returns, whichever value of err each read of the loop
\* observes; the result is nil only after Running was read, and an error only
\* after err was written, by the goroutine or by the loop itself.
C38_StartTerminates ==
    /\ ((StartPolling /\ (col.state # "Starting" \/ col.runPc = "returned"))
           ~> (~StartPolling /\ col.startRet \in {"nil", "err"}))
    /\ [](~StartPolling => (col.svc = "new" => col.startRet \in {"nil", "err"}))
    /\ []((col.svc = "new" /\ col.startRet = "nil") => col.polled = "Running")
    /\ []((col.svc = "new" /\ col.startRet = "err") =>
             (col.err \in {"appErr", "stateErr"} /\ col.runPc = "returned"))

\* Run has returned while Start was polling; Start read the state Closed with
\* no error of the goroutine in sight, set its own error and returned it.
C38_Witness ==
    /\ col.startRet = "err"
    /\ col.err = "stateErr"
    /\ col.polled = "Closed"
    /\ col.runPc = "returned"
    /\ col.appDone
    /\ pc = "InitError"

====
